---- MODULE Spec2Model ----
(***************************************************************************)
(* The C boundary of cpp/src/pedalboard.cpp driven on one processor        *)
(* handle: the factory, the parameter accessors of the thirteen built-in   *)
(* effects, and pedalboard_processor_process with its prepare decision.    *)
(*                                                                         *)
(* Numbers.  A float parameter value v is the integer v * PScale           *)
(* (hundredths), a float sample s the integer s * SScale (thousandths),    *)
(* a delay in samples d the integer d * PScale.  Physical values pushed    *)
(* into the DSP objects are in thousandths of their unit, except           *)
(* frequencies, which are in whole Hz.                                     *)
(***************************************************************************)
EXTENDS Integers, Sequences, FiniteSets, TLC

PScale == 100
SScale == 1000

\* Bounds of the exploration.
MaxBlock == 2      \* longest block (num_samples) handed to process
MaxStream == 3     \* most samples followed across process calls without a reset
MaxCalls == 2      \* most calls into the registry users that one thread begins

\* Inputs the caller may pass.
Vals == {0, 50, 100}                 \* parameter values 0.0, 0.5, 1.0
Indices == -1 .. 5                   \* parameter indices, valid and not
Rates == {0, 1, 2}                   \* sample_rate, in Hz
Channels == {1, 2}                   \* num_channels
Samples == {-2000, -60, 1000}        \* samples -2.0, -0.06, 1.0 (clipped or not)
DelaySamples == {-60, 1000}          \* samples told apart along a delay line
Names == {"Gain", "Reverb", "Delay", "Distortion", "Clipping", "Chorus",
          "Phaser", "Compressor", "Limiter", "LowPass", "HighPass",
          "LadderFilter", "Bitcrush", "LowPassFilter", "HighPassFilter",
          "NotAnEffect", "gain"}

VARIABLES
    wrapper,            \* TRUE while the handle points at a ProcessorWrapper
    kind,               \* class of wrapper->processor, "null" when empty
    fields,             \* the effect's normalized parameter members, by index
    derived,            \* what the effect last pushed into its DSP object
    sampleRate,         \* DelayProcessor/FilterProcessor::sampleRate
    currentSampleRate,  \* what wrapper->processor->getSampleRate() returns
    line,               \* DelayProcessor::delayLine
    fault,              \* "none", or "ub" once undefined behaviour was executed
    lastOp,             \* the last boundary call with its arguments and result
    buffer,             \* the caller's buffer before and after the process call just made
    preparedSpec,       \* the <<rate, block size>> last passed to prepareToPlay
    stream,             \* samples of consecutive same-spec process calls from a cold start
    g_internal,         \* the static pointer: 0 for nullptr, else the instance it points at
    instances,          \* number of PedalboardInternal objects constructed so far
    calls,              \* per thread: the registry-using call it is in, and where
    disk,               \* the file at the path handed to save_audio_file
    inflight            \* the block a thread is in the middle of processing

\* The processor behind the handle, and the rest of the process.
vars == <<wrapper, kind, fields, derived, sampleRate, currentSampleRate, line,
          fault, lastOp, buffer, preparedSpec, stream,
          g_internal, instances, calls, disk, inflight>>
env == <<g_internal, instances, calls, disk, inflight>>

Threads == {1, 2}
NoCall == [pc |-> "idle", op |-> "none", inst |-> 0, n |-> 0, ok |-> TRUE]
NoBlock == [i |-> 0, rate |-> 0, in |-> <<>>, out |-> <<>>, snap |-> <<>>, used |-> <<>>]

NoSpec == <<>>
NoBuffer == [in |-> <<>>, out |-> <<>>]
NoStream == [ok |-> FALSE, in |-> <<>>, out |-> <<>>]

----------------------------------------------------------------------------
\* Helper functions.

\* min + input * (max - min)
mapRange(input, min, max) == min + (input * (max - min)) \div PScale

\* The integer part of the square root, by bisection of lo .. hi.
RECURSIVE Bisect(_, _, _)
Bisect(n, lo, hi) ==
    IF lo >= hi THEN lo
    ELSE LET mid == (lo + hi + 1) \div 2
         IN  IF mid * mid <= n THEN Bisect(n, mid, hi) ELSE Bisect(n, lo, mid - 1)
ISqrt(n) == Bisect(n, 0, 46340)

\* min * (max / min) ^ input, for the exponents 0, 1/2 and 1
mapRangeLog(input, min, max) ==
    CASE input = 0 -> min
      [] 2 * input = PScale -> ISqrt(min * max)
      [] input = PScale -> max

----------------------------------------------------------------------------
\* Configuration of a DSP object: the physical values the effect pushed into
\* it, or the library's own construction-time configuration while the effect
\* has pushed nothing (no constructor but Reverb's and Delay's touches it).

Cfg(c) == [configured |-> TRUE, cfg |-> c]
LibDefault == [configured |-> FALSE, cfg |-> <<>>]
NoConfig == Cfg(<<>>)

Store(f, i, value) == [f EXCEPT ![i + 1] = value]

\* --- Gain: the value lives in juce::dsp::Gain (target of its smoother)
Gain_init == [fields |-> <<0>>, derived |-> NoConfig]
Gain_setParam(f, d, sr, index, value) ==
    [fields |-> IF index = 0 THEN Store(f, 0, value) ELSE f, derived |-> d]
Gain_getParam(f, index) == IF index = 0 THEN f[1] ELSE 0
Gain_getNumParams == 1

\* --- Reverb: params, and the copy juce::Reverb keeps (setParameters)
Reverb_init == [fields |-> <<50, 50, 33, 40, 100>>,
                derived |-> Cfg(<<50, 50, 33, 40, 100>>)]
Reverb_setParam_noWidth(f, d, sr, index, value) ==
    LET params == IF index = 0 THEN Store(f, 0, value)
                  ELSE IF index = 1 THEN Store(f, 1, value)
                  ELSE IF index = 2 THEN Store(f, 2, value)
                  ELSE IF index = 3 THEN Store(f, 3, value)
                  ELSE f
    IN  [fields |-> params, derived |-> Cfg(params)]
Reverb_setParam(f, d, sr, index, value) ==
    LET params == IF index = 0 THEN Store(f, 0, value)
                  ELSE IF index = 1 THEN Store(f, 1, value)
                  ELSE IF index = 2 THEN Store(f, 2, value)
                  ELSE IF index = 3 THEN Store(f, 3, value)
                  ELSE IF index = 4 THEN Store(f, 4, value)
                  ELSE f
    IN  [fields |-> params, derived |-> Cfg(params)]
Reverb_getParam(f, index) ==
    IF index = 0 THEN f[1] ELSE IF index = 1 THEN f[2] ELSE IF index = 2 THEN f[3]
    ELSE IF index = 3 THEN f[4] ELSE IF index = 4 THEN f[5] ELSE 0
Reverb_getNumParams == 5

\* --- Delay: timeParam, feedback, mix; derived is delayLine's delay
maximumDelayInSamples == 192000
DelayLine_setDelay_noLimit(newDelay) == newDelay
DelayLine_setDelay(newDelay) ==
    LET upperLimit == maximumDelayInSamples * PScale
    IN  IF newDelay < 0 THEN 0 ELSE IF newDelay > upperLimit THEN upperLimit ELSE newDelay
Delay_updateDelay(f, sr) ==
    LET delaySec == mapRange(f[1], 0, 2 * PScale)
        delaySamples == delaySec * sr
    IN  Cfg(<<DelayLine_setDelay(IF delaySamples < PScale THEN PScale ELSE delaySamples)>>)
Delay_init == [fields |-> <<25, 50, 50>>, derived |-> Cfg(<<0>>)]
Delay_setParam(f, d, sr, index, value) ==
    IF index = 0 THEN [fields |-> Store(f, 0, value),
                       derived |-> Delay_updateDelay(Store(f, 0, value), sr)]
    ELSE IF index = 1 THEN [fields |-> Store(f, 1, value), derived |-> d]
    ELSE IF index = 2 THEN [fields |-> Store(f, 2, value), derived |-> d]
    ELSE [fields |-> f, derived |-> d]
Delay_getParam(f, index) ==
    IF index = 0 THEN f[1] ELSE IF index = 1 THEN f[2] ELSE IF index = 2 THEN f[3] ELSE 0
Delay_getNumParams == 3

\* --- Distortion: drive; derived is <<inputGain, outputGain>>
Distortion_update(f) ==
    LET driveAmount == mapRangeLog(f[1], 1 * SScale, 50 * SScale)
    IN  Cfg(<<driveAmount, (SScale * SScale) \div ISqrt(driveAmount * SScale)>>)
Distortion_init == [fields |-> <<50>>, derived |-> LibDefault]
Distortion_setParam(f, d, sr, index, value) ==
    IF index = 0 THEN [fields |-> Store(f, 0, value),
                       derived |-> Distortion_update(Store(f, 0, value))]
    ELSE [fields |-> f, derived |-> d]
Distortion_getParam(f, index) == f[1]
Distortion_getNumParams == 1

\* --- Hard Clip: threshold, mapped when a block is processed
Clipping_init == [fields |-> <<100>>, derived |-> NoConfig]
Clipping_setParam(f, d, sr, index, value) ==
    [fields |-> IF index = 0 THEN Store(f, 0, value) ELSE f, derived |-> d]
Clipping_getParam(f, index) == f[1]
Clipping_getNumParams == 1

\* --- Chorus: rate, depth, delay, feedback, mix
Chorus_update(f) ==
    Cfg(<<mapRange(f[1], 100, 5000), f[2], mapRange(f[3], 1000, 30000),
          mapRange(f[4], -900, 900), f[5]>>)
Chorus_init == [fields |-> <<20, 50, 20, 50, 50>>, derived |-> LibDefault]
Chorus_setParam(f, d, sr, index, value) ==
    LET g == IF index = 0 THEN Store(f, 0, value)
             ELSE IF index = 1 THEN Store(f, 1, value)
             ELSE IF index = 2 THEN Store(f, 2, value)
             ELSE IF index = 3 THEN Store(f, 3, value)
             ELSE IF index = 4 THEN Store(f, 4, value)
             ELSE f
    IN  [fields |-> g, derived |-> Chorus_update(g)]
Chorus_getParam(f, index) ==
    IF index = 0 THEN f[1] ELSE IF index = 1 THEN f[2] ELSE IF index = 2 THEN f[3]
    ELSE IF index = 3 THEN f[4] ELSE IF index = 4 THEN f[5] ELSE 0
Chorus_getNumParams == 5

\* --- Phaser: rate, depth, freq, feedback, mix
Phaser_update(f) ==
    Cfg(<<mapRange(f[1], 100, 10000), f[2], mapRangeLog(f[3], 100, 5000),
          mapRange(f[4], -900, 900), f[5]>>)
Phaser_init == [fields |-> <<10, 50, 50, 50, 50>>, derived |-> LibDefault]
Phaser_setParam(f, d, sr, index, value) ==
    LET g == IF index = 0 THEN Store(f, 0, value)
             ELSE IF index = 1 THEN Store(f, 1, value)
             ELSE IF index = 2 THEN Store(f, 2, value)
             ELSE IF index = 3 THEN Store(f, 3, value)
             ELSE IF index = 4 THEN Store(f, 4, value)
             ELSE f
    IN  [fields |-> g, derived |-> Phaser_update(g)]
Phaser_getParam(f, index) ==
    IF index = 0 THEN f[1] ELSE IF index = 1 THEN f[2] ELSE IF index = 2 THEN f[3]
    ELSE IF index = 3 THEN f[4] ELSE IF index = 4 THEN f[5] ELSE 0
Phaser_getNumParams == 5

\* --- Compressor: threshold, ratio, attack, release
Compressor_update(f) ==
    Cfg(<<mapRange(f[1], -60000, 0), mapRange(f[2], 1000, 20000),
          mapRange(f[3], 1000, 200000), mapRange(f[4], 20000, 500000)>>)
Compressor_init == [fields |-> <<80, 20, 10, 20>>, derived |-> LibDefault]
Compressor_setParam(f, d, sr, index, value) ==
    LET g == IF index = 0 THEN Store(f, 0, value)
             ELSE IF index = 1 THEN Store(f, 1, value)
             ELSE IF index = 2 THEN Store(f, 2, value)
             ELSE IF index = 3 THEN Store(f, 3, value)
             ELSE f
    IN  [fields |-> g, derived |-> Compressor_update(g)]
Compressor_getParam(f, index) ==
    IF index = 0 THEN f[1] ELSE IF index = 1 THEN f[2] ELSE IF index = 2 THEN f[3]
    ELSE IF index = 3 THEN f[4] ELSE 0
Compressor_getNumParams == 4

\* --- Limiter: threshold, release
Limiter_update(f) ==
    Cfg(<<mapRange(f[1], -20000, 0), mapRange(f[2], 10000, 500000)>>)
Limiter_init == [fields |-> <<100, 20>>, derived |-> LibDefault]
Limiter_setParam(f, d, sr, index, value) ==
    LET g == IF index = 0 THEN Store(f, 0, value)
             ELSE IF index = 1 THEN Store(f, 1, value)
             ELSE f
    IN  [fields |-> g, derived |-> Limiter_update(g)]
Limiter_getParam(f, index) == IF index = 0 THEN f[1] ELSE IF index = 1 THEN f[2] ELSE 0
Limiter_getNumParams == 2

\* --- Filters (IIR): cutoff, q; the coefficients are made from the type,
\* the sample rate, the cutoff in Hz and Q
Filter_update(type, f, sr) ==
    Cfg(<<IF type = "LowPass" THEN 0 ELSE 1, sr, mapRangeLog(f[1], 20, 20000), mapRange(f[2], 100, 10000)>>)
Filter_init == [fields |-> <<50, 10>>, derived |-> LibDefault]
Filter_setParam(type, f, d, sr, index, value) ==
    LET g == IF index = 0 THEN Store(f, 0, value)
             ELSE IF index = 1 THEN Store(f, 1, value)
             ELSE f
    IN  [fields |-> g, derived |-> Filter_update(type, g, sr)]
Filter_getParam(f, index) == IF index = 0 THEN f[1] ELSE IF index = 1 THEN f[2] ELSE 0
Filter_getNumParams == 2

\* --- Ladder Filter: cutoff, resonance, drive
Ladder_update(f) ==
    Cfg(<<mapRangeLog(f[1], 20, 20000), mapRange(f[2], 0, 1000),
          mapRange(f[3], 1000, 5000)>>)
Ladder_init == [fields |-> <<50, 0, 0>>, derived |-> LibDefault]
Ladder_setParam(f, d, sr, index, value) ==
    LET g == IF index = 0 THEN Store(f, 0, value)
             ELSE IF index = 1 THEN Store(f, 1, value)
             ELSE IF index = 2 THEN Store(f, 2, value)
             ELSE f
    IN  [fields |-> g, derived |-> Ladder_update(g)]
Ladder_getParam(f, index) ==
    IF index = 0 THEN f[1] ELSE IF index = 1 THEN f[2] ELSE IF index = 2 THEN f[3] ELSE 0
Ladder_getNumParams == 3

\* --- Bitcrush: bitDepth, downsample, mapped when a block is processed
Bitcrush_init == [fields |-> <<0, 0>>, derived |-> NoConfig]
Bitcrush_setParam(f, d, sr, index, value) ==
    [fields |-> IF index = 0 THEN Store(f, 0, value)
                ELSE IF index = 1 THEN Store(f, 1, value)
                ELSE f,
     derived |-> d]
Bitcrush_getParam(f, index) == IF index = 0 THEN f[1] ELSE IF index = 1 THEN f[2] ELSE 0
Bitcrush_getNumParams == 2

\* Virtual dispatch on the class of the processor.
setParam(k, f, d, sr, index, value) ==
    CASE k = "Gain" -> Gain_setParam(f, d, sr, index, value)
      [] k = "Reverb" -> Reverb_setParam(f, d, sr, index, value)
      [] k = "Delay" -> Delay_setParam(f, d, sr, index, value)
      [] k = "Distortion" -> Distortion_setParam(f, d, sr, index, value)
      [] k = "Clipping" -> Clipping_setParam(f, d, sr, index, value)
      [] k = "Chorus" -> Chorus_setParam(f, d, sr, index, value)
      [] k = "Phaser" -> Phaser_setParam(f, d, sr, index, value)
      [] k = "Compressor" -> Compressor_setParam(f, d, sr, index, value)
      [] k = "Limiter" -> Limiter_setParam(f, d, sr, index, value)
      [] k = "LowPass" -> Filter_setParam("LowPass", f, d, sr, index, value)
      [] k = "HighPass" -> Filter_setParam("HighPass", f, d, sr, index, value)
      [] k = "LadderFilter" -> Ladder_setParam(f, d, sr, index, value)
      [] k = "Bitcrush" -> Bitcrush_setParam(f, d, sr, index, value)

getParam(k, f, index) ==
    CASE k = "Gain" -> Gain_getParam(f, index)
      [] k = "Reverb" -> Reverb_getParam(f, index)
      [] k = "Delay" -> Delay_getParam(f, index)
      [] k = "Distortion" -> Distortion_getParam(f, index)
      [] k = "Clipping" -> Clipping_getParam(f, index)
      [] k = "Chorus" -> Chorus_getParam(f, index)
      [] k = "Phaser" -> Phaser_getParam(f, index)
      [] k = "Compressor" -> Compressor_getParam(f, index)
      [] k = "Limiter" -> Limiter_getParam(f, index)
      [] k = "LowPass" -> Filter_getParam(f, index)
      [] k = "HighPass" -> Filter_getParam(f, index)
      [] k = "LadderFilter" -> Ladder_getParam(f, index)
      [] k = "Bitcrush" -> Bitcrush_getParam(f, index)

getNumParams_sharedFive(k) ==
    CASE k \in {"Reverb", "Chorus", "Phaser", "Compressor"} -> 5
      [] k = "Delay" -> Delay_getNumParams
      [] k = "LadderFilter" -> Ladder_getNumParams
      [] k \in {"Limiter", "LowPass", "HighPass", "Bitcrush"} -> Limiter_getNumParams
      [] OTHER -> Gain_getNumParams
getNumParams(k) ==
    CASE k = "Gain" -> Gain_getNumParams
      [] k = "Reverb" -> Reverb_getNumParams
      [] k = "Delay" -> Delay_getNumParams
      [] k = "Distortion" -> Distortion_getNumParams
      [] k = "Clipping" -> Clipping_getNumParams
      [] k = "Chorus" -> Chorus_getNumParams
      [] k = "Phaser" -> Phaser_getNumParams
      [] k = "Compressor" -> Compressor_getNumParams
      [] k = "Limiter" -> Limiter_getNumParams
      [] k = "LowPass" -> Filter_getNumParams
      [] k = "HighPass" -> Filter_getNumParams
      [] k = "LadderFilter" -> Ladder_getNumParams
      [] k = "Bitcrush" -> Bitcrush_getNumParams

\* The members of a freshly constructed effect.
construct(k) ==
    CASE k = "Gain" -> Gain_init
      [] k = "Reverb" -> Reverb_init
      [] k = "Delay" -> Delay_init
      [] k = "Distortion" -> Distortion_init
      [] k = "Clipping" -> Clipping_init
      [] k = "Chorus" -> Chorus_init
      [] k = "Phaser" -> Phaser_init
      [] k = "Compressor" -> Compressor_init
      [] k = "Limiter" -> Limiter_init
      [] k = "LowPass" -> Filter_init
      [] k = "HighPass" -> Filter_init
      [] k = "LadderFilter" -> Ladder_init
      [] k = "Bitcrush" -> Bitcrush_init


----------------------------------------------------------------------------
\* juce::dsp::DelayLine<float, Linear>, one record per channel.  The ring of
\* totalSize samples is kept as the samples pushed since the last reset
\* (pushSample moves writePos down by one from 0, so push number k, counted
\* from 0, lands at position -k modulo totalSize; every other position holds
\* the 0 that reset() wrote) and the number of pops (readPos moves alike).

DelayLine_totalSize == maximumDelayInSamples + 2
DelayLine_fresh == [numChannels |-> 0, ch |-> <<>>]
DelayLine_channel == [pushed |-> <<>>, pops |-> 0]
DelayLine_prepare(numChannels) ==
    [numChannels |-> numChannels, ch |-> [c \in 1 .. numChannels |-> DelayLine_channel]]

DelayLine_sampleAt(c, index) ==
    LET k == (DelayLine_totalSize - index) % DelayLine_totalSize
    IN  IF k < Len(c.pushed) THEN c.pushed[k + 1] ELSE 0

DelayLine_popSample(c, delay) ==
    LET delayInt == delay \div PScale
        delayFrac == delay % PScale
        readPos == (DelayLine_totalSize - (c.pops % DelayLine_totalSize)) % DelayLine_totalSize
        i1 == readPos + delayInt
        wrap == i1 + 1 >= DelayLine_totalSize
        index1 == IF wrap THEN i1 % DelayLine_totalSize ELSE i1
        index2 == IF wrap THEN (i1 + 1) % DelayLine_totalSize ELSE i1 + 1
        value1 == DelayLine_sampleAt(c, index1)
        value2 == DelayLine_sampleAt(c, index2)
    IN  [result |-> value1 + (delayFrac * (value2 - value1)) \div PScale,
         c |-> [c EXCEPT !.pops = @ + 1]]

DelayLine_pushSample(c, sample) == [c EXCEPT !.pushed = Append(@, sample)]

\* The inner loop of DelayProcessor::processBlock on one channel, from
\* sample i on: [c |-> the channel's line, data |-> the channel's samples].
RECURSIVE Delay_processChannel(_, _, _, _, _, _)
Delay_processChannel(c, data, i, feedback, mix, delay) ==
    IF i > Len(data) THEN [c |-> c, data |-> data]
    ELSE LET input == data[i]
             pop == DelayLine_popSample(c, delay)
             delayedSample == pop.result
             nextInput == input + (delayedSample * feedback) \div PScale
             pushed == DelayLine_pushSample(pop.c, nextInput)
             output == (input * (PScale - mix)) \div PScale + (delayedSample * mix) \div PScale
         IN  Delay_processChannel(pushed, [data EXCEPT ![i] = output], i + 1,
                                  feedback, mix, delay)

\* DelayProcessor::processBlock; channel ch of the buffer uses channel ch of
\* the line, which exists only once prepare has sized the line.
Delay_processBlock(e, block) ==
    IF Len(block) > e.line.numChannels
    THEN [e |-> e, out |-> <<>>, ub |-> TRUE]
    ELSE LET r == [ch \in 1 .. Len(block) |->
                      Delay_processChannel(e.line.ch[ch], block[ch], 1,
                                           e.fields[2], e.fields[3], e.derived.cfg[1])]
         IN  [e |-> [e EXCEPT !.line.ch = [ch \in 1 .. e.line.numChannels |->
                                              IF ch <= Len(block) THEN r[ch].c ELSE @[ch]]],
              out |-> [ch \in 1 .. Len(block) |-> r[ch].data],
              ub |-> FALSE]

Max(a, b) == IF a >= b THEN a ELSE b
Min(a, b) == IF a <= b THEN a ELSE b

Clipping_processBlock_upperOnly(e, block) ==
    LET thresh == mapRange(e.fields[1], SScale \div 10, SScale)
    IN  [e |-> e,
         out |-> [ch \in 1 .. Len(block) |->
                     [i \in 1 .. Len(block[ch]) |-> Min(thresh, block[ch][i])]],
         ub |-> FALSE]

\* ClippingProcessor::processBlock
Clipping_processBlock(e, block) ==
    LET thresh == mapRange(e.fields[1], SScale \div 10, SScale)
    IN  [e |-> e,
         out |-> [ch \in 1 .. Len(block) |->
                     [i \in 1 .. Len(block[ch]) |-> Max(-thresh, Min(thresh, block[ch][i]))]],
         ub |-> FALSE]

\* (int) of a float held in hundredths: truncation toward zero.
toInt(x) == IF x >= 0 THEN x \div PScale ELSE -((-x) \div PScale)

RECURSIVE Pow2(_)
Pow2(n) == IF n <= 0 THEN 1 ELSE 2 * Pow2(n - 1)

\* int depth and int down of BitcrushProcessor::processBlock
Bitcrush_depth(f) == toInt(mapRange(f[1], 32 * PScale, 2 * PScale))
Bitcrush_down(f) == toInt(mapRange(f[2], 1 * PScale, 50 * PScale))

\* std::floor(val / step + 0.5f) * step with step = 1 / (1 << (depth - 1)),
\* on a sample in thousandths.  A step finer than a thousandth moves no
\* sample at this resolution; the result is exact for depth 2 (step 0.5).
Bitcrush_quantize(val, depth) ==
    IF depth < 32 /\ Pow2(depth - 1) <= SScale
    THEN (((2 * val * Pow2(depth - 1) + SScale) \div (2 * SScale)) * SScale)
            \div Pow2(depth - 1)
    ELSE val

\* BitcrushProcessor::processBlock.  i and lastVal are locals of the call
\* (lastVal of the channel loop); i % down is 0 when |down| divides i.  The
\* shift 1 << (depth - 1) is undefined outside 0..31 and i % 0 is undefined.
Bitcrush_processBlock(e, block) ==
    LET depth == Bitcrush_depth(e.fields)
        down == Bitcrush_down(e.fields)
        d == IF down < 0 THEN -down ELSE down
    IN  IF depth - 1 < 0 \/ depth - 1 > 31 \/ down = 0
        THEN [e |-> e, out |-> <<>>, ub |-> TRUE]
        ELSE [e |-> e,
              out |-> [ch \in 1 .. Len(block) |->
                          [n \in 1 .. Len(block[ch]) |->
                              Bitcrush_quantize(block[ch][n - ((n - 1) % d)], depth)]],
              ub |-> FALSE]

\* processBlock of the other effects: the block goes through a library
\* object; neither the samples that come out nor the
\* object's memory are followed, the members above are left as they are.
Library_processBlock(e) == [e |-> e, out |-> <<>>, ub |-> FALSE]

processBlock(k, e, block) ==
    CASE k = "Delay" -> Delay_processBlock(e, block)
      [] k = "Clipping" -> Clipping_processBlock(e, block)
      [] k = "Bitcrush" -> Bitcrush_processBlock(e, block)
      [] OTHER -> Library_processBlock(e)

\* prepare(spec) of each effect, as far as it writes the members followed
\* here.  DelayLine::prepare sizes the line to spec.numChannels and resets it.
prepare(k, e, spec) ==
    CASE k = "Gain" -> e
      [] k = "Reverb" -> e
      [] k = "Delay" -> [e EXCEPT !.sampleRate = spec.sampleRate,
                                  !.line = DelayLine_prepare(spec.numChannels),
                                  !.derived = Delay_updateDelay(e.fields, spec.sampleRate)]
      [] k = "Distortion" -> [e EXCEPT !.derived = Distortion_update(e.fields)]
      [] k = "Clipping" -> e
      [] k = "Chorus" -> [e EXCEPT !.derived = Chorus_update(e.fields)]
      [] k = "Phaser" -> [e EXCEPT !.derived = Phaser_update(e.fields)]
      [] k = "Compressor" -> [e EXCEPT !.derived = Compressor_update(e.fields)]
      [] k = "Limiter" -> [e EXCEPT !.derived = Limiter_update(e.fields)]
      [] k \in {"LowPass", "HighPass"} ->
            [e EXCEPT !.sampleRate = spec.sampleRate,
                      !.derived = Filter_update(k, e.fields, spec.sampleRate)]
      [] k = "LadderFilter" -> [e EXCEPT !.derived = Ladder_update(e.fields)]
      [] k = "Bitcrush" -> e

\* The bus layout BaseInternalProcessor's constructor declares: stereo out.
getTotalNumOutputChannels == 2

\* BaseInternalProcessor::prepareToPlay: builds the spec and calls prepare.
\* It does not record the rate in the juce::AudioProcessor base (that is
\* setRateAndBufferSizeDetails, which nothing here calls).
prepareToPlay(k, e, rate, samplesPerBlock) ==
    prepare(k, e, [sampleRate |-> rate, maximumBlockSize |-> samplesPerBlock,
                   numChannels |-> getTotalNumOutputChannels])


----------------------------------------------------------------------------
\* The state of the effect behind the handle, as one record.

effect == [fields |-> fields, derived |-> derived, sampleRate |-> sampleRate,
           line |-> line]

NoEffect == [fields |-> <<>>, derived |-> NoConfig, sampleRate |-> 0,
             line |-> DelayLine_fresh]

\* Member initialisers: double sampleRate = 44100.0 in the two classes that
\* have the member.
newEffect(k) ==
    [fields |-> construct(k).fields, derived |-> construct(k).derived,
     sampleRate |-> IF k \in {"Delay", "LowPass", "HighPass"} THEN 44100 ELSE 0,
     line |-> DelayLine_fresh]

Install(e) ==
    /\ fields' = e.fields
    /\ derived' = e.derived
    /\ sampleRate' = e.sampleRate
    /\ line' = e.line

Init ==
    /\ wrapper = FALSE
    /\ kind = "null"
    /\ fields = NoEffect.fields
    /\ derived = NoEffect.derived
    /\ sampleRate = NoEffect.sampleRate
    /\ currentSampleRate = 0
    /\ line = NoEffect.line
    /\ fault = "none"
    /\ lastOp = [op |-> "init"]
    /\ buffer = NoBuffer
    /\ preparedSpec = NoSpec
    /\ stream = NoStream
    /\ g_internal = 0
    /\ instances = 0
    /\ calls = [t \in Threads |-> NoCall]
    /\ disk = "absent"
    /\ inflight = NoBlock

\* --- Factory: the class made for a name, "null" when proc stays empty
makeProcessor_ignoreCase(processorName) ==
    IF processorName \in {"NotAnEffect", "LowPassFilter", "HighPassFilter"} THEN "null"
    ELSE IF processorName = "gain" THEN "Gain"
    ELSE processorName
makeProcessor_noBitcrush(processorName) ==
    IF processorName \in {"NotAnEffect", "LowPassFilter", "HighPassFilter", "gain",
                          "Bitcrush"}
    THEN "null"
    ELSE processorName
makeProcessor(processorName) ==
    IF processorName = "Gain" THEN "Gain"
    ELSE IF processorName = "Reverb" THEN "Reverb"
    ELSE IF processorName = "Chorus" THEN "Chorus"
    ELSE IF processorName = "Distortion" THEN "Distortion"
    ELSE IF processorName = "Clipping" THEN "Clipping"
    ELSE IF processorName = "Phaser" THEN "Phaser"
    ELSE IF processorName = "Compressor" THEN "Compressor"
    ELSE IF processorName = "Limiter" THEN "Limiter"
    ELSE IF processorName = "Delay" THEN "Delay"
    ELSE IF processorName = "LowPass" THEN "LowPass"
    ELSE IF processorName = "HighPass" THEN "HighPass"
    ELSE IF processorName = "LadderFilter" THEN "LadderFilter"
    ELSE IF processorName = "Bitcrush" THEN "Bitcrush"
    ELSE "null"

\* Whether the factory wraps what it made and returns the wrapper.
wrapsProcessor(proc) == proc # "null"

pedalboard_create_internal_processor(name) ==
    LET proc == makeProcessor(name)
    IN  /\ fault = "none"
        /\ ~wrapper
        /\ IF wrapsProcessor(proc)
           THEN /\ wrapper' = TRUE
                /\ kind' = proc
                /\ Install(IF proc = "null" THEN NoEffect ELSE newEffect(proc))
           ELSE UNCHANGED <<wrapper, kind, fields, derived, sampleRate, line>>
        /\ currentSampleRate' = 0
        /\ lastOp' = [op |-> "create", name |-> name, ret |-> wrapper']
        /\ buffer' = NoBuffer
        /\ UNCHANGED <<fault, preparedSpec, stream>>
        /\ UNCHANGED env

pedalboard_processor_free ==
    /\ fault = "none"
    /\ wrapper' = FALSE
    /\ kind' = "null"
    /\ Install(NoEffect)
    /\ currentSampleRate' = 0
    /\ lastOp' = [op |-> "free"]
    /\ buffer' = NoBuffer
    /\ preparedSpec' = NoSpec
    /\ stream' = NoStream
    /\ UNCHANGED fault
    /\ UNCHANGED env

\* --- Parameter access
pedalboard_processor_set_parameter(index, value) ==
    /\ fault = "none"
    /\ IF ~wrapper
       THEN UNCHANGED <<fields, derived, stream>>
       ELSE LET r == setParam(kind, fields, derived, sampleRate, index, value)
            IN  /\ fields' = r.fields
                /\ derived' = r.derived
                /\ stream' = NoStream
    /\ lastOp' = [op |-> "set", index |-> index, value |-> value]
    /\ buffer' = NoBuffer
    /\ UNCHANGED <<wrapper, kind, sampleRate, currentSampleRate, line, fault,
                   preparedSpec>>
    /\ UNCHANGED env

get_parameter(index) == IF ~wrapper THEN 0 ELSE getParam(kind, fields, index)

pedalboard_processor_get_parameter(index) ==
    /\ fault = "none"
    /\ lastOp' = [op |-> "get", index |-> index, ret |-> get_parameter(index)]
    /\ buffer' = NoBuffer
    /\ UNCHANGED <<wrapper, kind, fields, derived, sampleRate, currentSampleRate, line,
                   fault, preparedSpec, stream>>
    /\ UNCHANGED env

get_num_parameters == IF ~wrapper THEN 0 ELSE getNumParams(kind)

pedalboard_processor_get_num_parameters ==
    /\ fault = "none"
    /\ lastOp' = [op |-> "num", ret |-> get_num_parameters]
    /\ buffer' = NoBuffer
    /\ UNCHANGED <<wrapper, kind, fields, derived, sampleRate, currentSampleRate, line,
                   fault, preparedSpec, stream>>
    /\ UNCHANGED env

\* --- Processing
\* The buffers a caller may hand in: num_channels channels of num_samples
\* samples.  Where the samples do not reach the followed state (a library
\* effect, a null handle) one buffer of each shape stands for all.
Blocks(num_channels, num_samples) ==
    IF wrapper /\ kind = "Clipping"
    THEN [1 .. num_channels -> [1 .. num_samples -> Samples]]
    ELSE IF wrapper /\ kind = "Delay"
    THEN [1 .. num_channels -> [1 .. num_samples -> DelaySamples]]
    ELSE {[c \in 1 .. num_channels |-> [i \in 1 .. num_samples |-> 0]]}

\* "Simplified prepare call if rate changes"
needsPrepare(sample_rate) == currentSampleRate # sample_rate

\* The samples followed across calls: a call continues the stream when it
\* comes right after a process call of the same spec and channel count;
\* otherwise it starts one if the line was prepared in it (the bitcrusher
\* has nothing to prepare).
nextStream(continues, fits, prepared, block, out) ==
    IF kind \notin {"Delay", "Bitcrush"} THEN NoStream
    ELSE IF continues /\ fits
         THEN [ok |-> TRUE,
               in |-> [c \in 1 .. Len(block) |-> stream.in[c] \o block[c]],
               out |-> [c \in 1 .. Len(block) |-> stream.out[c] \o out[c]]]
    ELSE IF ~continues /\ (prepared \/ kind = "Bitcrush")
         THEN [ok |-> TRUE, in |-> block, out |-> out]
    ELSE NoStream

\* What one call does to the effect: prepareToPlay when the rate check asks
\* for it, then processBlock.
runProcess(samples, sample_rate) ==
    processBlock(kind,
                 IF needsPrepare(sample_rate)
                 THEN prepareToPlay(kind, effect, sample_rate, Len(samples[1]))
                 ELSE effect,
                 samples)

pedalboard_processor_process(samples, sample_rate) ==
    LET num_samples == Len(samples[1])
        spec == <<sample_rate, num_samples>>
        doPrepare == needsPrepare(sample_rate)
        continues == /\ stream.ok
                     /\ lastOp.op = "process"
                     /\ <<lastOp.rate, lastOp.n>> = spec
                     /\ Len(stream.in) = Len(samples)
        fits == continues /\ Len(stream.in[1]) + num_samples <= MaxStream
    IN  /\ fault = "none"
        /\ IF ~wrapper
           THEN /\ lastOp' = [op |-> "process", rate |-> sample_rate, n |-> num_samples,
                              log |-> <<>>]
                /\ buffer' = NoBuffer
                /\ UNCHANGED <<fields, derived, sampleRate, line, fault,
                               preparedSpec, stream>>
           ELSE \E r \in {runProcess(samples, sample_rate)} :
                /\ \A c \in 1 .. r.e.line.numChannels :
                      Len(r.e.line.ch[c].pushed) <= MaxStream
                /\ Install(r.e)
                /\ fault' = IF r.ub THEN "ub" ELSE "none"
                /\ lastOp' = [op |-> "process", rate |-> sample_rate, n |-> num_samples,
                              log |-> IF doPrepare THEN <<"prepareToPlay", "processBlock">>
                                      ELSE <<"processBlock">>]
                /\ buffer' = IF kind \in {"Delay", "Clipping"}
                             THEN [in |-> samples, out |-> r.out] ELSE NoBuffer
                /\ preparedSpec' = IF doPrepare THEN spec ELSE preparedSpec
                /\ stream' = IF r.ub THEN NoStream
                             ELSE nextStream(continues, fits, doPrepare, samples, r.out)
        /\ UNCHANGED <<wrapper, kind, currentSampleRate>>
        /\ UNCHANGED env

\* The boundary driven on parameters: every name, every index, and one-sample
\* blocks at one rate in between.
Next ==
    \/ \E name \in Names : pedalboard_create_internal_processor(name)
    \/ pedalboard_processor_free
    \/ \E index \in Indices, value \in Vals : pedalboard_processor_set_parameter(index, value)
    \/ \E index \in Indices : pedalboard_processor_get_parameter(index)
    \/ pedalboard_processor_get_num_parameters
    \/ \E num_channels \in Channels : \E samples \in Blocks(num_channels, 1) :
          pedalboard_processor_process(samples, 1)

Spec == Init /\ [][Next]_vars

\* The boundary driven on blocks: the Delay, whose samples are followed, and
\* one library effect, their valid parameters, every rate and block size.
BlockNames == {"Gain", "Delay"}
BlockIndices == 0 .. 2
BlockVals == {0, 50, 100}

NextBlocks ==
    \/ \E name \in BlockNames : pedalboard_create_internal_processor(name)
    \/ pedalboard_processor_free
    \/ \E index \in BlockIndices, value \in BlockVals :
          pedalboard_processor_set_parameter(index, value)
    \/ \E num_samples \in 1 .. MaxBlock, sample_rate \in Rates :
          \E samples \in Blocks(1, num_samples) :
             pedalboard_processor_process(samples, sample_rate)

SpecBlocks == Init /\ [][NextBlocks]_vars

\* The boundary driven on a Delay processor: its parameters, and one-sample
\* blocks at rates up to one whose two seconds exceed the line's capacity.
DelayRates == {0, 1, 192000}

NextDelay ==
    \/ pedalboard_create_internal_processor("Delay")
    \/ pedalboard_processor_free
    \/ \E index \in 0 .. 2, value \in Vals : pedalboard_processor_set_parameter(index, value)
    \/ \E sample_rate \in DelayRates : \E samples \in Blocks(1, 1) :
          pedalboard_processor_process(samples, sample_rate)

SpecDelay == Init /\ [][NextDelay]_vars

\* The boundary driven on a Bitcrush processor: parameter values inside and
\* outside [0,1], and mono blocks of every size and rate.
BitVals == {-4, -1, 0, 3, 100, 104}

NextBitcrush ==
    \/ pedalboard_create_internal_processor("Bitcrush")
    \/ pedalboard_processor_free
    \/ \E index \in 0 .. 1, value \in BitVals :
          pedalboard_processor_set_parameter(index, value)
    \/ \E num_samples \in 1 .. MaxBlock, sample_rate \in Rates :
          \E samples \in [1 .. 1 -> [1 .. num_samples -> DelaySamples]] :
             pedalboard_processor_process(samples, sample_rate)

SpecBitcrush == Init /\ [][NextBitcrush]_vars

\* The boundary driven on a Clipping processor: its parameter, mono blocks
\* of every size and stereo blocks of one sample, at every rate.
NextClipping ==
    \/ pedalboard_create_internal_processor("Clipping")
    \/ pedalboard_processor_free
    \/ \E value \in Vals : pedalboard_processor_set_parameter(0, value)
    \/ \E num_samples \in 1 .. MaxBlock, sample_rate \in Rates :
          \E samples \in Blocks(1, num_samples) :
             pedalboard_processor_process(samples, sample_rate)
    \/ \E sample_rate \in Rates : \E samples \in Blocks(2, 1) :
          pedalboard_processor_process(samples, sample_rate)

SpecClipping == Init /\ [][NextClipping]_vars

----------------------------------------------------------------------------
\* pedalboard_processor_process on a Delay, one sample of the block at a
\* time, while another thread may call set_parameter on the same handle.
\* Neither function takes a lock.  inflight.i is the next sample (0 outside
\* the call), used the members each sample was processed with, snap the
\* members when the block began.

\* The members the loop body reads for a sample: feedback, mix and the
\* line's delay, read when the sample is processed.
Delay_readParams_atEntry == inflight.snap
Delay_readParams ==
    [feedback |-> fields[2], mix |-> fields[3], delay |-> derived.cfg[1]]

\* Entry of the call up to the first sample: the rate test, prepareToPlay.
process_enter(samples, sample_rate) ==
    LET e == IF needsPrepare(sample_rate)
             THEN prepareToPlay(kind, effect, sample_rate, Len(samples[1]))
             ELSE effect
    IN  /\ fault = "none" /\ wrapper /\ kind = "Delay"
        /\ inflight.i = 0
        /\ Install(e)
        /\ fault' = IF e.line.numChannels < Len(samples) THEN "ub" ELSE "none"
        /\ inflight' = IF e.line.numChannels < Len(samples) THEN NoBlock
                       ELSE [i |-> 1, rate |-> sample_rate, in |-> samples[1],
                             out |-> <<>>,
                             snap |-> [feedback |-> e.fields[2], mix |-> e.fields[3],
                                       delay |-> e.derived.cfg[1]],
                             used |-> <<>>]
        /\ preparedSpec' = IF needsPrepare(sample_rate)
                           THEN <<sample_rate, Len(samples[1])>> ELSE preparedSpec
        /\ lastOp' = [op |-> "process_enter", rate |-> sample_rate, n |-> Len(samples[1])]
        /\ buffer' = NoBuffer
        /\ stream' = NoStream
        /\ UNCHANGED <<wrapper, kind, currentSampleRate, g_internal, instances, calls,
                       disk>>

\* One turn of the sample loop.
process_sample ==
    /\ fault = "none" /\ wrapper /\ kind = "Delay"
    /\ inflight.i >= 1 /\ inflight.i <= Len(inflight.in)
    /\ \E p \in {Delay_readParams} :
       \E r \in {Delay_processChannel(line.ch[1], <<inflight.in[inflight.i]>>, 1,
                                      p.feedback, p.mix, p.delay)} :
          /\ line' = [line EXCEPT !.ch[1] = r.c]
          /\ inflight' = [inflight EXCEPT !.i = @ + 1,
                                          !.out = @ \o r.data,
                                          !.used = Append(@, p)]
    /\ UNCHANGED <<wrapper, kind, fields, derived, sampleRate, currentSampleRate, fault,
                   lastOp, buffer, preparedSpec, stream, g_internal, instances, calls,
                   disk>>

\* The loop is over and the call returns.
process_leave ==
    /\ fault = "none" /\ wrapper /\ kind = "Delay"
    /\ inflight.i = Len(inflight.in) + 1
    /\ lastOp' = [op |-> "process_leave", rate |-> inflight.rate,
                  n |-> Len(inflight.in)]
    /\ buffer' = [in |-> <<inflight.in>>, out |-> <<inflight.out>>]
    /\ inflight' = NoBlock
    /\ UNCHANGED <<wrapper, kind, fields, derived, sampleRate, currentSampleRate, line,
                   fault, preparedSpec, stream, g_internal, instances, calls, disk>>

RaceVals == {0, 100}

NextRace ==
    \/ pedalboard_create_internal_processor("Delay")
    \/ \E index \in 1 .. 2, value \in RaceVals :
          pedalboard_processor_set_parameter(index, value)
    \/ \E num_samples \in 1 .. MaxBlock :
          \E samples \in [1 .. 1 -> [1 .. num_samples -> DelaySamples]] :
             process_enter(samples, 1)
    \/ process_sample
    \/ process_leave

SpecRace == Init /\ [][NextRace]_vars

----------------------------------------------------------------------------
\* The process-wide registries and the file functions, called from threads.

procVars == <<wrapper, kind, fields, derived, sampleRate, currentSampleRate, line,
              fault, lastOp, buffer, preparedSpec, stream>>

RegistryOps == {"pedalboard_init", "pedalboard_load_plugin",
                "pedalboard_load_audio_file", "pedalboard_save_audio_file"}

\* Thread t enters one of the functions; each begins with pedalboard_init()
\* (save after its null test).
BeginCall(t, op) ==
    /\ calls[t].pc = "idle"
    /\ calls[t].n < MaxCalls
    /\ calls' = [calls EXCEPT ![t] = [pc |-> "init", op |-> op, inst |-> 0,
                                      n |-> @.n + 1, ok |-> TRUE]]
    /\ UNCHANGED <<g_internal, instances, disk, inflight>>
    /\ UNCHANGED procVars

\* pedalboard_save_audio_file with buffer == nullptr: returns at once.
pedalboard_save_audio_file_null(t) ==
    /\ calls[t].pc = "idle"
    /\ calls[t].n < MaxCalls
    /\ calls' = [calls EXCEPT ![t] = [pc |-> "idle", op |-> "pedalboard_save_audio_file",
                                      inst |-> 0, n |-> @.n + 1, ok |-> FALSE]]
    /\ UNCHANGED <<g_internal, instances, disk, inflight>>
    /\ UNCHANGED procVars

\* pedalboard_init: the test g_internal == nullptr ...
pedalboard_init_test(t) ==
    /\ calls[t].pc = "init"
    /\ calls' = [calls EXCEPT ![t].pc = IF g_internal = 0 THEN "new" ELSE "body"]
    /\ UNCHANGED <<g_internal, instances, disk, inflight>>
    /\ UNCHANGED procVars

\* ... and g_internal = new PedalboardInternal()
pedalboard_init_new(t) ==
    /\ calls[t].pc = "new"
    /\ instances' = instances + 1
    /\ g_internal' = instances + 1
    /\ calls' = [calls EXCEPT ![t].pc = "body"]
    /\ UNCHANGED <<disk, inflight>>
    /\ UNCHANGED procVars

pedalboard_init_return(t) ==
    /\ calls[t].pc = "body" /\ calls[t].op = "pedalboard_init"
    /\ calls' = [calls EXCEPT ![t].pc = "idle"]
    /\ UNCHANGED <<g_internal, instances, disk, inflight>>
    /\ UNCHANGED procVars

\* The rest of pedalboard_load_plugin: g_internal->pluginFormatManager is
\* asked for the types at the path; found says whether an instance was made.
pedalboard_load_plugin(t, found) ==
    /\ calls[t].pc = "body" /\ calls[t].op = "pedalboard_load_plugin"
    /\ calls' = [calls EXCEPT ![t].pc = "idle", ![t].inst = g_internal, ![t].ok = found]
    /\ UNCHANGED <<g_internal, instances, disk, inflight>>
    /\ UNCHANGED procVars

\* The rest of pedalboard_load_audio_file: g_internal->formatManager makes a
\* reader for the file, or none.
pedalboard_load_audio_file(t) ==
    /\ calls[t].pc = "body" /\ calls[t].op = "pedalboard_load_audio_file"
    /\ calls' = [calls EXCEPT ![t].pc = "idle", ![t].inst = g_internal,
                              ![t].ok = (disk = "written")]
    /\ UNCHANGED <<g_internal, instances, disk, inflight>>
    /\ UNCHANGED procVars

\* The rest of pedalboard_save_audio_file with a buffer: an existing file is
\* deleted, a format is looked up (the default one stands in for an unknown
\* extension), a FileOutputStream is opened on the path (opens: it could be;
\* this creates the file), the format is asked for a writer (writerOk: it
\* made one for this rate and channel count), and the writer writes.
pedalboard_save_audio_file(t, opens, writerOk) ==
    LET afterDelete == "absent"
        afterOpen == IF opens THEN "empty" ELSE afterDelete
    IN  /\ calls[t].pc = "body" /\ calls[t].op = "pedalboard_save_audio_file"
        /\ disk' = IF writerOk /\ opens THEN "written" ELSE afterOpen
        /\ calls' = [calls EXCEPT ![t].pc = "idle", ![t].inst = g_internal,
                                  ![t].ok = (writerOk /\ opens)]
        /\ UNCHANGED <<g_internal, instances, inflight>>
        /\ UNCHANGED procVars

NextRegistry ==
    \E t \in Threads :
       \/ \E op \in RegistryOps : BeginCall(t, op)
       \/ pedalboard_save_audio_file_null(t)
       \/ pedalboard_init_test(t)
       \/ pedalboard_init_new(t)
       \/ pedalboard_init_return(t)
       \/ \E found \in BOOLEAN : pedalboard_load_plugin(t, found)
       \/ pedalboard_load_audio_file(t)
       \/ \E opens \in BOOLEAN, writerOk \in BOOLEAN :
             pedalboard_save_audio_file(t, opens, writerOk)

SpecRegistry == Init /\ [][NextRegistry]_vars

----------------------------------------------------------------------------
\* Properties.

ValidIndex(index) == 0 <= index /\ index < get_num_parameters

\* The effect table of the specification: kind and number of parameters.
TableCount(k) ==
    CASE k = "Gain" -> 1 [] k = "Reverb" -> 5 [] k = "Delay" -> 3
      [] k = "Distortion" -> 1 [] k = "Clipping" -> 1 [] k = "Chorus" -> 5
      [] k = "Phaser" -> 5 [] k = "Compressor" -> 4 [] k = "Limiter" -> 2
      [] k = "LowPass" -> 2 [] k = "HighPass" -> 2 [] k = "LadderFilter" -> 3
      [] k = "Bitcrush" -> 2
TableNames == {"Gain", "Reverb", "Delay", "Distortion", "Clipping", "Chorus", "Phaser",
               "Compressor", "Limiter", "LowPass", "HighPass", "LadderFilter", "Bitcrush"}
\* The effect-kind names of the specification's data model.
DataModelNames == {"Gain", "Reverb", "Delay", "Distortion", "Clipping", "Chorus", "Phaser",
                   "Compressor", "Limiter", "LowPassFilter", "HighPassFilter",
                   "LadderFilter", "Bitcrush"}

\* C1: right after set_parameter(i, v) with a valid index i and v in [0,1],
\* get_parameter(i) returns v, whatever calls came before.
C1_GetAfterSet ==
    (/\ lastOp.op = "set" /\ wrapper
     /\ ValidIndex(lastOp.index)
     /\ lastOp.value \in 0 .. PScale)
    => get_parameter(lastOp.index) = lastOp.value

\* C1 witness: the last parameter of a Reverb that has processed a block was
\* set to 0 and reads back 0.
C1_Witness ==
    /\ lastOp.op = "set" /\ kind = "Reverb" /\ lastOp.index = 4 /\ lastOp.value = 0
    /\ preparedSpec # NoSpec
    /\ get_parameter(4) = 0

\* C2: a live processor's parameter count is the count the effect table
\* lists for its kind, and no call on the processor changes it.
C2_ParamCount ==
    [][wrapper' => /\ get_num_parameters' = TableCount(kind')
                   /\ (wrapper => get_num_parameters' = get_num_parameters)]_vars

\* C2 witness: a Compressor whose parameters were set and which processed a
\* block reports 4 parameters.
C2_Witness ==
    /\ lastOp.op = "num" /\ kind = "Compressor" /\ lastOp.ret = 4
    /\ fields # Compressor_init.fields /\ preparedSpec # NoSpec

\* C3: get_parameter with an index below 0 or at or past the parameter
\* count returns 0, whatever the effect's parameters hold.
C3_OutOfRangeGetIsZero ==
    (lastOp.op = "get" /\ wrapper /\ ~ValidIndex(lastOp.index)) => lastOp.ret = 0

\* C4: set_parameter with an index below 0 or at or past the parameter count
\* changes neither what get_parameter returns for any valid index nor the
\* effect's derived processing configuration.
C4_OutOfRangeSetIsNoOp ==
    [][(/\ lastOp'.op = "set" /\ wrapper /\ wrapper'
        /\ ~ValidIndex(lastOp'.index))
       => /\ \A j \in Indices : ValidIndex(j) => get_parameter(j)' = get_parameter(j)
          /\ derived' = derived]_vars

\* C5: the factory returns null and makes nothing for a name that is not an
\* effect kind's name; a handle it returns owns one effect; "Gain" gives a
\* handle whose parameter count is 1.
C5_UnknownNameIsNull ==
    /\ (lastOp.op = "create" /\ lastOp.name \notin TableNames)
          => (~lastOp.ret /\ ~wrapper /\ kind = "null")
    /\ wrapper => kind \in TableNames
    /\ (lastOp.op = "create" /\ lastOp.name = "Gain")
          => (lastOp.ret /\ kind = "Gain" /\ get_num_parameters = 1)

\* C5 witness: "NotAnEffect" was asked for and nothing was made.
C5_Witness == lastOp.op = "create" /\ lastOp.name = "NotAnEffect" /\ ~wrapper

\* C6 as stated: the factory returns a processor for each of the thirteen
\* names of the data model.
C6_DataModelNamesAccepted ==
    (lastOp.op = "create" /\ lastOp.name \in DataModelNames) => lastOp.ret

\* C6 as amended: the factory returns a processor for each of the thirteen
\* names Gain, Reverb, Delay, Distortion, Clipping, Chorus, Phaser,
\* Compressor, Limiter, LowPass, HighPass, LadderFilter, Bitcrush, matched
\* exactly, and null for LowPassFilter and HighPassFilter.
C6_FactoryNamesAccepted ==
    /\ (lastOp.op = "create" /\ lastOp.name \in TableNames)
          => (lastOp.ret /\ wrapper /\ kind = lastOp.name)
    /\ (lastOp.op = "create" /\ lastOp.name \in {"LowPassFilter", "HighPassFilter"})
          => ~lastOp.ret

\* C6 witness: "HighPass" was asked for and a high-pass filter was made.
C6_Witness == lastOp.op = "create" /\ lastOp.name = "HighPass" /\ kind = "HighPass"


\* C7: a process call whose sample rate or block size differs from the spec
\* the processor was last prepared with runs prepare once, before the block
\* is processed.
C7_PrepareOnSpecChange ==
    [][(/\ lastOp'.op = "process" /\ wrapper
        /\ preparedSpec # NoSpec
        /\ <<lastOp'.rate, lastOp'.n>> # preparedSpec)
       => lastOp'.log = <<"prepareToPlay", "processBlock">>]_vars

\* C8: the second of two consecutive process calls with the same sample rate
\* and block size runs no prepare, and a Delay's line goes on from where the
\* first call left it.
C8_NoPrepareOnSameSpec ==
    [][(/\ lastOp.op = "process" /\ lastOp'.op = "process" /\ wrapper
        /\ lastOp'.rate = lastOp.rate /\ lastOp'.n = lastOp.n)
       => /\ lastOp'.log = <<"processBlock">>
          /\ kind = "Delay" =>
                \A c \in 1 .. line.numChannels :
                   c <= Len(buffer'.in) =>
                      line'.ch[c].pops = line.ch[c].pops + lastOp'.n]_vars

\* The threshold the specification gives Clipping for parameter p:
\* t = 0.1 + p * 0.9.
ClipThreshold(p) == SScale \div 10 + (p * ((9 * SScale) \div 10)) \div PScale
Clamp(x, lo, hi) == IF x < lo THEN lo ELSE IF x > hi THEN hi ELSE x
Abs(x) == IF x < 0 THEN -x ELSE x

C10_DelayedByD ==
    (/\ stream.ok /\ wrapper /\ kind = "Delay"
     /\ fields[2] = 0 /\ fields[3] = PScale
     /\ derived.cfg[1] % PScale = 0 /\ derived.cfg[1] >= PScale)
    => LET D == derived.cfg[1] \div PScale
       IN  \A c \in 1 .. Len(stream.in) :
              \A n \in 1 .. Len(stream.in[c]) :
                 stream.out[c][n] = IF n > D THEN stream.in[c][n - D] ELSE 0


\* C12: no block is processed by a processor that was not prepared since it
\* was constructed: after any process call on a live processor, at whatever
\* sample rate, prepare has run at least once.
C12_PreparedBeforeProcessed ==
    (lastOp.op = "process" /\ wrapper) => preparedSpec # NoSpec


\* The delay set on the line lies between one sample and the line's capacity.
DelayWithinCapacity ==
    /\ kind = "Delay"
    /\ derived.cfg[1] >= PScale
    /\ derived.cfg[1] <= maximumDelayInSamples * PScale

\* C17: once set_parameter(0, v) with v in [0,1] or a preparation has
\* configured the Delay's line, the configured delay is at least 1 sample and
\* at most 192000 samples, and every later call keeps it so.
C17_DelayWithinCapacity ==
    [][(/\ wrapper' /\ kind' = "Delay"
        /\ \/ wrapper /\ DelayWithinCapacity
           \/ /\ wrapper /\ lastOp'.op = "set" /\ lastOp'.index = 0
              /\ lastOp'.value \in 0 .. PScale
           \/ /\ lastOp'.op = "process"
              /\ lastOp'.log = <<"prepareToPlay", "processBlock">>)
       => DelayWithinCapacity']_vars

\* C17 witness: prepared at 192000 Hz, the time parameter was set to 1 (two
\* seconds, 384000 samples) and the line holds a delay of 192000 samples.
C17_Witness ==
    /\ wrapper /\ kind = "Delay" /\ sampleRate = 192000
    /\ lastOp.op = "set" /\ lastOp.index = 0 /\ lastOp.value = PScale
    /\ derived.cfg[1] = maximumDelayInSamples * PScale


\* C13: over the input stream of a channel, counted across consecutive
\* process calls of an unchanged spec, a Bitcrush with decimation factor
\* d = floor(1 + 49 * downsample) retains every d-th sample (quantized below
\* 32 bits) and every output sample is the most recently retained one.
C13_HoldAcrossBlocks ==
    (/\ stream.ok /\ wrapper /\ kind = "Bitcrush"
     /\ fields[1] \in 0 .. PScale /\ fields[2] \in 0 .. PScale)
    => LET d == 1 + (49 * fields[2]) \div PScale
       IN  \A c \in 1 .. Len(stream.in) :
              \A n \in 1 .. Len(stream.in[c]) :
                 stream.out[c][n] =
                    Bitcrush_quantize(stream.in[c][n - ((n - 1) % d)],
                                      Bitcrush_depth(fields))

\* C16: whenever a Bitcrush processes a block, whatever values were set
\* before, its decimation factor is at least 1 and its bit depth lies in
\* 2..32.
C16_BitcrushArithmeticSafe ==
    (lastOp.op = "process" /\ wrapper /\ kind = "Bitcrush")
    => /\ Bitcrush_down(fields) >= 1
       /\ Bitcrush_depth(fields) \in 2 .. 32


\* C11: a save that fails (no writer could be made, or the file could not
\* be opened) leaves the file at the path as it was before the call.
C11_FailedSaveLeavesFile ==
    [][\A t \in Threads :
          (/\ calls[t].pc = "body" /\ calls[t].op = "pedalboard_save_audio_file"
           /\ calls'[t].pc = "idle" /\ ~calls'[t].ok)
          => disk' = disk]_vars

\* C14: under any interleaving of the functions that use the registries, at
\* most one registry instance is ever constructed and all callers use the
\* same one.
C14_OneRegistry ==
    /\ instances <= 1
    /\ \A t, u \in Threads :
          (calls[t].inst # 0 /\ calls[u].inst # 0) => calls[t].inst = calls[u].inst


\* C15: process and set_parameter on one processor are not synchronized:
\* while a block is in the middle of being processed set_parameter can still
\* run, and every sample is processed with the members as they are at that
\* moment, so that a write between two samples splits the block.
C15_SetDuringBlock ==
    [][/\ (inflight.i >= 1 /\ fault = "none")
             => ENABLED pedalboard_processor_set_parameter(2, 0)
       /\ (inflight.i >= 1 /\ inflight'.i = inflight.i + 1)
             => inflight'.used[inflight.i] =
                   [feedback |-> fields[2], mix |-> fields[3], delay |-> derived.cfg[1]]]_vars

\* C15 witness: a block of two samples has been processed, the first sample
\* with the mix the block began with and the second with another mix,
\* written by set_parameter in between.
C15_Witness ==
    /\ inflight.i = 3
    /\ Len(inflight.used) = 2
    /\ inflight.used[1] = inflight.snap
    /\ inflight.used[2].mix # inflight.snap.mix
    /\ lastOp.op = "set" /\ lastOp.index = 2


====
